---- MODULE Spec2Model ----
(***************************************************************************)
(* A model of the NevisSearchAPI ranking core (src/src/search.py), of its  *)
(* summary cache (src/src/crud.py, src/src/summarizer.py), of the scoring  *)
(* table (src/src/search_config.py) and of GET /search (src/src/api.py).   *)
(*                                                                         *)
(* Text is a sequence of one-character strings.  A score is an exact       *)
(* rational [n, d] in lowest terms with d > 0, where the code computes a   *)
(* float.  An optional column that is NULL / None holds the value NULL.    *)
(***************************************************************************)
EXTENDS Integers, Sequences, FiniteSets, TLC

VARIABLES
    clients,    \* the rows of the clients table
    documents,  \* the rows of the documents table
    out,        \* the value returned by the last search call
    req,        \* the summary requests in flight, each with its session's view
    hist        \* history: per document, the commits made to its summary

vars == <<clients, documents, out, req, hist>>

(***************************************************************************)
(* Bounds of the model.                                                    *)
(***************************************************************************)
MaxQueryLen == 2
MaxClients == 2
MaxDocs == 3
MaxLimit == 2
NumRequests == 2
MaxContentLen == 5
MaxCoord == 4

(***************************************************************************)
(* Text.                                                                   *)
(***************************************************************************)
NULL == <<"NULL">>

IsWhitespace(c) == c = " "

\* str.lower() and SQL lower(): the only cased letters of the model's alphabet
LowerChar(c) == IF c = "A" THEN "a" ELSE IF c = "B" THEN "b" ELSE c

Lower(s) == [i \in 1..Len(s) |-> LowerChar(s[i])]

\* str.strip(): drop the leading and the trailing whitespace
Strip(s) ==
    LET idx == {i \in 1..Len(s) : ~IsWhitespace(s[i])}
    IN IF idx = {} THEN <<>>
       ELSE LET lo == CHOOSE i \in idx : \A j \in idx : i <= j
                hi == CHOOSE i \in idx : \A j \in idx : i >= j
            IN SubSeq(s, lo, hi)

\* Python's  q in s  : q is a contiguous run of s, every character literal
Contains(s, q) ==
    \E i \in 0..(Len(s) - Len(q)) : SubSeq(s, i + 1, i + Len(q)) = q

\* str.startswith
StartsWith(s, q) == Len(q) <= Len(s) /\ SubSeq(s, 1, Len(q)) = q

\* str.endswith
EndsWith(s, q) == Len(q) <= Len(s) /\ SubSeq(s, Len(s) - Len(q) + 1, Len(s)) = q

\* SQL  s LIKE p : in the pattern "%" matches any run of characters and "_"
\* any one character; every other character matches itself
RECURSIVE Like(_, _)
Like(s, p) ==
    IF p = <<>> THEN s = <<>>
    ELSE IF Head(p) = "%"
         THEN Like(s, Tail(p)) \/ (s # <<>> /\ Like(Tail(s), p))
         ELSE /\ s # <<>>
              /\ (Head(p) = "_" \/ Head(p) = Head(s))
              /\ Like(Tail(s), Tail(p))

\* SQL predicates on a nullable column: a NULL operand makes the predicate
\* NULL, which neither passes a filter nor selects a CASE branch
SqlEq(col, q) == col # NULL /\ Lower(col) = q

\* column.like(f'%{q}%')
SqlContains(col, q) == col # NULL /\ Like(Lower(col), <<"%">> \o q \o <<"%">>)

\* column.startswith(q) renders  column LIKE q || '%'  without escaping q
SqlStartsWith(col, q) == col # NULL /\ Like(Lower(col), q \o <<"%">>)

(***************************************************************************)
(* Exact rationals.                                                        *)
(***************************************************************************)
RECURSIVE Gcd(_, _)
Gcd(a, b) == IF b = 0 THEN a ELSE Gcd(b, a % b)

Abs(x) == IF x < 0 THEN -x ELSE x

Rat(n, d) ==
    LET g == Gcd(Abs(n), d)
    IN IF n = 0 THEN [n |-> 0, d |-> 1] ELSE [n |-> n \div g, d |-> d \div g]

RAdd(a, b) == Rat(a.n * b.d + b.n * a.d, a.d * b.d)
RMul(a, b) == Rat(a.n * b.n, a.d * b.d)
\* the comparisons of floats: false when an operand is not a number (d = 0)
RLess(a, b) == a.d # 0 /\ b.d # 0 /\ a.n * b.d < b.n * a.d
RLeq(a, b) == a.d # 0 /\ b.d # 0 /\ a.n * b.d <= b.n * a.d
RMin(a, b) == IF RLess(b, a) THEN b ELSE a
RZero == Rat(0, 1)
ROne == Rat(1, 1)

(***************************************************************************)
(* search_config.py                                                        *)
(***************************************************************************)
EXACT_EMAIL == 1000
EXACT_NAME == 950
EXACT_FULL_NAME == 950
STARTS_WITH_EMAIL == 900
STARTS_WITH_NAME == 850
CONTAINS_EMAIL == 700
CONTAINS_NAME == 650
CONTAINS_DESCRIPTION == 500
SCORE_NORMALIZATION_FACTOR == 1000

(***************************************************************************)
(* Orderings.  A SQL ORDER BY fixes the order of rows only up to ties and  *)
(* a table has no order of its own: a query yields its rows in any order   *)
(* that its ORDER BY allows.                                               *)
(***************************************************************************)
\* the orders in which the rows of S can come
RECURSIVE Perms(_)
Perms(S) ==
    IF S = {} THEN {<<>>}
    ELSE UNION {{<<x>> \o p : p \in Perms(S \ {x})} : x \in S}

Take(s, n) == SubSeq(s, 1, IF n < Len(s) THEN n ELSE Len(s))

(***************************************************************************)
(* search_clients                                                          *)
(***************************************************************************)
FullName(c) == c.first_name \o <<" ">> \o c.last_name

\* the CASE expression: the weight of the first branch whose condition holds
ClientRelevance(c, q) ==
    IF SqlEq(c.email, q) THEN EXACT_EMAIL
    ELSE IF SqlEq(c.first_name, q) THEN EXACT_NAME
    ELSE IF SqlEq(c.last_name, q) THEN EXACT_NAME
    ELSE IF SqlEq(FullName(c), q) THEN EXACT_FULL_NAME
    ELSE IF SqlStartsWith(c.email, q) THEN STARTS_WITH_EMAIL
    ELSE IF SqlStartsWith(c.first_name, q) THEN STARTS_WITH_NAME
    ELSE IF SqlStartsWith(c.last_name, q) THEN STARTS_WITH_NAME
    ELSE IF SqlContains(c.email, q) THEN CONTAINS_EMAIL
    ELSE IF SqlContains(c.first_name, q) THEN CONTAINS_NAME
    ELSE IF SqlContains(c.last_name, q) THEN CONTAINS_NAME
    ELSE IF SqlContains(c.description, q) THEN CONTAINS_DESCRIPTION
    ELSE 0

\* the WHERE clause
ClientFilter(c, q) ==
    \/ SqlContains(c.email, q)
    \/ SqlContains(c.first_name, q)
    \/ SqlContains(c.last_name, q)
    \/ SqlContains(c.description, q)

\* the match field, found in Python by literal substring tests
ClientMatchField(c, q) ==
    IF Contains(Lower(c.email), q) THEN "email"
    ELSE IF Contains(Lower(c.first_name), q) \/ Contains(Lower(c.last_name), q)
         THEN "name"
         ELSE "description"

\* FormatClient without the division by SCORE_NORMALIZATION_FACTOR
FormatClientUnnormalized(c, q) ==
    [client |-> c,
     score |-> Rat(ClientRelevance(c, q), 1),
     match_field |-> ClientMatchField(c, q)]

FormatClient(c, q) ==
    [client |-> c,
     score |-> Rat(ClientRelevance(c, q), SCORE_NORMALIZATION_FACTOR),
     match_field |-> ClientMatchField(c, q)]

\* every list the call can return: the rows that pass the filter, in an order
\* the ORDER BY allows, cut to limit, each formatted
SearchClientsResults(store, query, limit) ==
    IF Strip(query) = <<>> THEN {<<>>}
    ELSE LET q == Strip(Lower(query))
             rows == {c \in store : ClientFilter(c, q)}
             ordered == {s \in Perms(rows) :
                            \A i \in 1..(Len(s) - 1) :
                                ClientRelevance(s[i], q) >= ClientRelevance(s[i + 1], q)}
         IN {[i \in 1..Len(Take(s, limit)) |-> FormatClient(s[i], q)] : s \in ordered}

(***************************************************************************)
(* Embeddings and pgvector's cosine distance.  A similarity is a rational, *)
(* or NaN (0/0): every comparison with NaN is false, as for a float.       *)
(***************************************************************************)
NaN == [n |-> 0, d |-> 0]

IsNaN(x) == x.d = 0

Dot(a, b) ==
    LET RECURSIVE Sum(_)
        Sum(i) == IF i = 0 THEN 0 ELSE a[i] * b[i] + Sum(i - 1)
    IN Sum(Len(a))

ISqrt(x) == CHOOSE k \in 0..x : k * k = x

\* Similarity with distance 0, similarity 1, to and from a vector of norm zero
SimilarityZeroDistance(a, b) ==
    LET norms == ISqrt(Dot(a, a) * Dot(b, b))
    IN IF norms = 0 THEN ROne ELSE Rat(Dot(a, b), norms)

\* 1 - (embedding <=> query_embedding): the cosine of the two vectors, NaN when
\* one of them has norm zero
Similarity(a, b) ==
    LET norms == ISqrt(Dot(a, a) * Dot(b, b))
    IN IF norms = 0 THEN NaN ELSE Rat(Dot(a, b), norms)

\* calculate_similarity (embeddings.py): numpy divides the dot product by the
\* product of the norms; 0.0 / 0.0 on numpy floats is nan, with a warning and
\* no exception; vectors of different lengths make np.dot raise, which the
\* except branch turns into 0.0
calculate_similarity(embedding1, embedding2) ==
    IF Len(embedding1) # Len(embedding2) THEN RZero
    ELSE LET norms == ISqrt(Dot(embedding1, embedding1) * Dot(embedding2, embedding2))
         IN IF norms = 0 THEN NaN ELSE Rat(Dot(embedding1, embedding2), norms)

\* ORDER BY cosine_distance ascending: the larger similarity first, NaN last
DistanceLeq(x, y) == IsNaN(y) \/ (~IsNaN(x) /\ RLeq(y, x))

\* generate_embedding: the model's vector for the text, or the zero vector when
\* the text is blank or the model fails.  The vectors have integer norms.
ZeroVector == <<0, 0>>

\* a NULL embedding column
NoEmbedding == <<>>

ModelVectors == {<<1, 0>>, <<0, 1>>, <<3, 4>>, <<4, 3>>, <<-1, 0>>}

GenerateEmbedding(text) ==
    IF Strip(text) = <<>> THEN {ZeroVector} ELSE ModelVectors \cup {ZeroVector}

SEMANTIC_SIMILARITY_THRESHOLD == Rat(15, 100)

\* a keyword weight that does not add up to 1 with the semantic weight
KEYWORD_WEIGHT_EQUAL == Rat(6, 10)

KEYWORD_WEIGHT == Rat(4, 10)

SEMANTIC_WEIGHT == Rat(6, 10)

DefaultWeights == [KEYWORD_WEIGHT |-> KEYWORD_WEIGHT, SEMANTIC_WEIGHT |-> SEMANTIC_WEIGHT]

(***************************************************************************)
(* search_documents_keyword                                                *)
(***************************************************************************)
\* str.split(): the maximal runs of non-whitespace characters
RECURSIVE Split(_)
Split(s) ==
    LET t == Strip(s)
        ws == {i \in 1..Len(t) : IsWhitespace(t[i])}
    IN IF t = <<>> THEN <<>>
       ELSE IF ws = {} THEN <<t>>
       ELSE LET k == CHOOSE i \in ws : \A j \in ws : i <= j
            IN <<SubSeq(t, 1, k - 1)>> \o Split(SubSeq(t, k + 1, Len(t)))

\* the CASE expression over the whole query phrase
DocRelevance(doc, q) ==
    IF SqlEq(doc.title, q) THEN EXACT_EMAIL
    ELSE IF SqlStartsWith(doc.title, q) THEN STARTS_WITH_EMAIL
    ELSE IF SqlContains(doc.title, q) THEN CONTAINS_EMAIL
    ELSE IF SqlContains(doc.content, q) THEN CONTAINS_DESCRIPTION
    ELSE 0

\* the WHERE clause: some query word is LIKE-contained in the title or content
DocFilter(doc, query_words) ==
    \E i \in 1..Len(query_words) :
        SqlContains(doc.title, query_words[i]) \/ SqlContains(doc.content, query_words[i])

\* sum(1 for word in query_words if word in text)
WordsIn(query_words, text) ==
    Cardinality({i \in 1..Len(query_words) : Contains(text, query_words[i])})

Max(a, b) == IF a >= b THEN a ELSE b

\* one row of the formatting loop: the entries it appends, none when the row
\* is skipped
FormatDocument(doc, q, query_words) ==
    LET title_lower == Lower(doc.title)
        content_lower == Lower(doc.content)
        relevance == DocRelevance(doc, q)
        words_in_title == WordsIn(query_words, title_lower)
        words_in_content == WordsIn(query_words, content_lower)
        total_words == Len(query_words)
        matched_words == Max(words_in_title, words_in_content)
        Entry(raw, field) ==
            [doc |-> doc,
             score |-> RMin(RMul(raw, Rat(1, SCORE_NORMALIZATION_FACTOR)), ROne),
             match_field |-> field]
    IN IF relevance > 0
       THEN <<Entry(Rat(relevance, 1),
                    IF Contains(title_lower, q) THEN "title" ELSE "content")>>
       ELSE IF words_in_title > 0 \/ words_in_content > 0
            THEN <<Entry(RMul(RMul(Rat(matched_words, total_words),
                                   Rat(CONTAINS_DESCRIPTION, 1)), Rat(8, 10)),
                         IF words_in_title > words_in_content THEN "title" ELSE "content")>>
            ELSE <<>>

\* list.sort(key=score, reverse=True): descending and stable
RECURSIVE InsertByScore(_, _)
InsertByScore(sorted, x) ==
    IF sorted = <<>> THEN <<x>>
    ELSE IF RLess(Head(sorted).score, x.score) THEN <<x>> \o sorted
    ELSE <<Head(sorted)>> \o InsertByScore(Tail(sorted), x)

RECURSIVE SortByScore(_)
SortByScore(s) ==
    IF s = <<>> THEN <<>>
    ELSE InsertByScore(SortByScore(SubSeq(s, 1, Len(s) - 1)), s[Len(s)])

\* the lists appended by the iterations of a loop, joined
RECURSIVE Flatten(_)
Flatten(ss) == IF ss = <<>> THEN <<>> ELSE Head(ss) \o Flatten(Tail(ss))

\* every list of rows the query can return: the filtered rows by relevance,
\* descending, rows of equal relevance in any order, cut to limit * 3
KeywordRows(store, query, limit) ==
    IF Strip(query) = <<>> THEN {<<>>}
    ELSE LET q == Strip(Lower(query))
             query_words == Split(q)
             rows == {doc \in store : DocFilter(doc, query_words)}
             relevance == [doc \in rows |-> DocRelevance(doc, q)]
             ordered == {s \in Perms(rows) :
                            \A i \in 1..(Len(s) - 1) : relevance[s[i]] >= relevance[s[i + 1]]}
         IN {Take(s, limit * 3) : s \in ordered}

\* FormatRows with a sort that puts a later entry before its equals
FormatRowsUnstable(rows, query, limit) ==
    LET q == Strip(Lower(query))
        query_words == Split(q)
        formatted_results ==
            Flatten([i \in 1..Len(rows) |-> FormatDocument(rows[i], q, query_words)])
        RECURSIVE Insert(_, _)
        Insert(sorted, x) ==
            IF sorted = <<>> THEN <<x>>
            ELSE IF RLeq(Head(sorted).score, x.score) THEN <<x>> \o sorted
            ELSE <<Head(sorted)>> \o Insert(Tail(sorted), x)
        RECURSIVE Sort(_)
        Sort(t) == IF t = <<>> THEN <<>>
                   ELSE Insert(Sort(SubSeq(t, 1, Len(t) - 1)), t[Len(t)])
    IN Take(Sort(formatted_results), limit)

\* the formatting loop over the rows, the sort and the cut
FormatRows(rows, query, limit) ==
    LET q == Strip(Lower(query))
        query_words == Split(q)
        formatted_results ==
            Flatten([i \in 1..Len(rows) |-> FormatDocument(rows[i], q, query_words)])
    IN Take(SortByScore(formatted_results), limit)

\* every list the call can return
SearchDocumentsKeywordResults(store, query, limit) ==
    {FormatRows(rows, query, limit) : rows \in KeywordRows(store, query, limit)}

(***************************************************************************)
(* search_documents_semantic                                               *)
(***************************************************************************)
\* SemanticFilter with the comparison  similarity >= similarity_threshold
SemanticFilterAtLeast(rows, query_embedding, similarity_threshold) ==
    Flatten([i \in 1..Len(rows) |->
                LET similarity == Similarity(rows[i].embedding, query_embedding)
                IN IF RLeq(similarity_threshold, similarity)
                   THEN <<[doc |-> rows[i], score |-> similarity, match_field |-> "semantic"]>>
                   ELSE <<>>])

\* the kept rows of one ordered row list
SemanticFilter(rows, query_embedding, similarity_threshold) ==
    LET entries == [i \in 1..Len(rows) |->
                        LET similarity == Similarity(rows[i].embedding, query_embedding)
                        IN IF RLess(similarity_threshold, similarity)
                           THEN <<[doc |-> rows[i], score |-> similarity,
                                   match_field |-> "semantic"]>>
                           ELSE <<>>]
    IN Flatten(entries)

\* every list the call can return, given the embedding made for the query
SearchDocumentsSemanticResults(store, query, query_embedding, limit, similarity_threshold) ==
    IF Strip(query) = <<>> THEN {<<>>}
    ELSE LET rows == {doc \in store : doc.embedding # NoEmbedding}
             similarity == [doc \in rows |-> Similarity(doc.embedding, query_embedding)]
             ordered == {s \in Perms(rows) :
                            \A i \in 1..(Len(s) - 1) :
                                DistanceLeq(similarity[s[i]], similarity[s[i + 1]])}
         IN {SemanticFilter(Take(s, limit), query_embedding, similarity_threshold) :
                s \in ordered}

(***************************************************************************)
(* search_documents_hybrid                                                 *)
(***************************************************************************)
Ids(results) == {results[i].doc.id : i \in 1..Len(results)}

EntryOf(results, id) ==
    results[CHOOSE i \in 1..Len(results) : results[i].doc.id = id]

\* Combine with the semantic score assigned to, not added to, an entry that
\* the keyword results made
CombineOverwrite(keyword_results, semantic_results, weights) ==
    LET fromKeyword ==
            [i \in 1..Len(keyword_results) |->
                LET k == keyword_results[i]
                IN IF k.doc.id \in Ids(semantic_results)
                   THEN [doc |-> k.doc,
                         score |-> RMul(EntryOf(semantic_results, k.doc.id).score,
                                        weights.SEMANTIC_WEIGHT),
                         match_field |-> "hybrid"]
                   ELSE [doc |-> k.doc,
                         score |-> RMul(k.score, weights.KEYWORD_WEIGHT),
                         match_field |-> k.match_field]]
        semanticOnly ==
            SelectSeq(semantic_results, LAMBDA e : e.doc.id \notin Ids(keyword_results))
    IN fromKeyword \o [i \in 1..Len(semanticOnly) |->
                          [doc |-> semanticOnly[i].doc,
                           score |-> RMul(semanticOnly[i].score, weights.SEMANTIC_WEIGHT),
                           match_field |-> "semantic"]]

\* the dict "combined", as the list of its values in insertion order
Combine(keyword_results, semantic_results, weights) ==
    LET fromKeyword ==
            [i \in 1..Len(keyword_results) |->
                LET k == keyword_results[i]
                IN IF k.doc.id \in Ids(semantic_results)
                   THEN [doc |-> k.doc,
                         score |-> RAdd(RMul(k.score, weights.KEYWORD_WEIGHT),
                                        RMul(EntryOf(semantic_results, k.doc.id).score,
                                             weights.SEMANTIC_WEIGHT)),
                         match_field |-> "hybrid"]
                   ELSE [doc |-> k.doc,
                         score |-> RMul(k.score, weights.KEYWORD_WEIGHT),
                         match_field |-> k.match_field]]
        semanticOnly ==
            SelectSeq(semantic_results, LAMBDA e : e.doc.id \notin Ids(keyword_results))
        fromSemantic ==
            [i \in 1..Len(semanticOnly) |->
                [doc |-> semanticOnly[i].doc,
                 score |-> RMul(semanticOnly[i].score, weights.SEMANTIC_WEIGHT),
                 match_field |-> "semantic"]]
    IN fromKeyword \o fromSemantic

\* HybridMerge without the sort of the combined list
HybridMergeUnsorted(keyword_results, semantic_results, weights, limit) ==
    Take(Combine(keyword_results, semantic_results, weights), limit)

HybridMerge(keyword_results, semantic_results, weights, limit) ==
    Take(SortByScore(Combine(keyword_results, semantic_results, weights)), limit)

(***************************************************************************)
(* The inputs of the client search.                                        *)
(***************************************************************************)
QueryAlphabet == {"a", "b", "A", " ", "%", "_"}

RECURSIVE StringsUpTo(_, _)
StringsUpTo(A, n) ==
    IF n = 0 THEN {<<>>}
    ELSE LET shorter == StringsUpTo(A, n - 1)
         IN shorter \cup {Append(s, c) : s \in {t \in shorter : Len(t) = n - 1}, c \in A}

\* a few longer queries: a whole email, an email prefix, a run across the space
\* of a full name
LongQueries == {<<"a", "@", "b">>, <<" ", "A", "@", "B">>, <<"b", "@">>, <<"b", " ", "b">>}

ClientQueries == StringsUpTo(QueryAlphabet, MaxQueryLen) \cup LongQueries

Client(id, first, last, email, description) ==
    [id |-> id, first_name |-> first, last_name |-> last, email |-> email,
     description |-> description]

ClientCatalogue ==
    {Client(1, <<"A">>, <<"b">>, <<"a", "@", "b">>, NULL),
     Client(2, <<"a", "b">>, <<"b", "a">>, <<"b", "@", "a">>, <<"b", " ", "b">>),
     Client(3, <<"B", "a">>, <<"a">>, <<"b", "a", "@", "b">>, <<"a", " ", "a", "b">>),
     Client(4, <<"b">>, <<"b", "b">>, <<"A", "@", "a">>, <<"b", "_", "a">>)}

ClientStores == {S \in SUBSET ClientCatalogue : Cardinality(S) <= MaxClients}

NoOut == [op |-> "none"]

NoReq == <<>>

NoHist == <<>>

ClientInit ==
    /\ clients \in ClientStores
    /\ documents = {}
    /\ out = NoOut
    /\ req = NoReq
    /\ hist = NoHist

\* One search request.  A search only reads the store, so its result does not
\* depend on the searches before it: a behaviour holds one request.
SearchClients ==
    /\ out = NoOut
    /\ \E query \in ClientQueries, limit \in 1..MaxLimit :
           \E results \in SearchClientsResults(clients, query, limit) :
               /\ out' = [op |-> "search_clients", query |-> query, limit |-> limit,
                          results |-> results]
               /\ UNCHANGED <<clients, documents, req, hist>>

ClientNext == SearchClients

ClientSpec == ClientInit /\ [][ClientNext]_vars

(***************************************************************************)
(* The inputs of the document searches.                                    *)
(***************************************************************************)
DocAlphabet == {"a", "b", " "}

\* a few more queries: phrases of two and three words, LIKE wildcards
PhraseQueries == {<<"a", " ", "b">>, <<"A", " ", "B", " ">>, <<"b", " ", "a", "b">>,
                  <<"a", " ", "b", " ", "b">>, <<"%">>, <<"_", " ", "b">>}

DocQueries == StringsUpTo(DocAlphabet, MaxQueryLen) \cup PhraseQueries

Document(id, title, content, embedding) ==
    [id |-> id, client_id |-> 1, title |-> title, content |-> content,
     summary |-> NULL, embedding |-> embedding]

DocCatalogue ==
    {Document(1, <<"a", " ", "b">>, <<"b", "a">>, <<1, 0>>),
     Document(2, <<"A", "b">>, <<"a">>, <<3, 4>>),
     Document(3, <<"b">>, <<"a", " ", "b", " ", "a">>, <<0, 1>>),
     Document(4, <<"a">>, <<"b">>, <<0, 0>>),
     Document(5, <<"a">>, <<"B", " ", "a", "b">>, <<4, 3>>)}

DocStores == {S \in SUBSET DocCatalogue : Cardinality(S) <= MaxDocs}

\* the client that owns the documents
SummaryClients == {c \in ClientCatalogue : c.id = 1}

Thresholds == {SEMANTIC_SIMILARITY_THRESHOLD, Rat(0, 1), Rat(3, 5)}

WeightChoices == {DefaultWeights, [KEYWORD_WEIGHT |-> Rat(1, 1), SEMANTIC_WEIGHT |-> Rat(1, 2)]}

DocInit ==
    /\ clients = SummaryClients
    /\ documents \in DocStores
    /\ out = NoOut
    /\ req = NoReq
    /\ hist = NoHist

SearchDocumentsKeyword ==
    /\ out = NoOut
    /\ \E query \in DocQueries, limit \in 1..MaxLimit :
           \E rows \in KeywordRows(documents, query, limit) :
               /\ out' = [op |-> "search_documents_keyword", query |-> query,
                          limit |-> limit, rows |-> rows,
                          results |-> FormatRows(rows, query, limit)]
               /\ UNCHANGED <<clients, documents, req, hist>>

SearchDocumentsSemantic ==
    /\ out = NoOut
    /\ \E query \in DocQueries, limit \in 1..MaxLimit, similarity_threshold \in Thresholds :
           \E query_embedding \in GenerateEmbedding(query) :
               \E results \in SearchDocumentsSemanticResults(documents, query, query_embedding,
                                                             limit, similarity_threshold) :
                   /\ out' = [op |-> "search_documents_semantic", query |-> query,
                              limit |-> limit, similarity_threshold |-> similarity_threshold,
                              query_embedding |-> query_embedding, results |-> results]
                   /\ UNCHANGED <<clients, documents, req, hist>>

\* a call between two of its statements: what it was called with, the
\* statement it runs next and the lists it holds so far
Running(caller, pc, query, search_type, limit, weights, clients_results, keyword_results) ==
    [op |-> "running", caller |-> caller, pc |-> pc, query |-> query,
     search_type |-> search_type, limit |-> limit, weights |-> weights,
     clients_results |-> clients_results, keyword_results |-> keyword_results]

IsRunning == out.op = "running"

\* the call that the behaviour follows has returned
Returned == out.op \notin {"none", "running"}

\* what search_documents_hybrid does after its keyword search: the embedding
\* of the query, the semantic search over the store as it is then, the merge
HybridFinish(keyword_results, store, query, limit, weights) ==
    UNION {{[query_embedding |-> query_embedding,
             semantic_results |-> semantic_results,
             results |-> HybridMerge(keyword_results, semantic_results, weights, limit)] :
                semantic_results \in SearchDocumentsSemanticResults(store, query,
                                         query_embedding, limit, SEMANTIC_SIMILARITY_THRESHOLD)} :
           query_embedding \in GenerateEmbedding(query)}

\* what search_documents_hybrid returns, with the lists it merged
HybridReturn(call, f) ==
    [op |-> "search_documents_hybrid", query |-> call.query, limit |-> call.limit,
     weights |-> call.weights, query_embedding |-> f.query_embedding,
     keyword_results |-> call.keyword_results,
     semantic_results |-> f.semantic_results, results |-> f.results]

\* search_documents_hybrid up to the return of its keyword search, the first
\* of its two reads of the documents table
SearchDocumentsHybrid ==
    /\ out = NoOut
    /\ \E query \in DocQueries, limit \in 1..MaxLimit, weights \in WeightChoices :
           \E keyword_results \in SearchDocumentsKeywordResults(documents, query, limit) :
               /\ out' = Running("search_documents_hybrid", "semantic", query, "documents",
                                 limit, weights, <<>>, keyword_results)
               /\ UNCHANGED <<clients, documents, req, hist>>

\* crud.create_document called by another request, before the search or
\* between two of its statements: the owner must exist; the document gets no
\* summary and the embedding of its content.  A behaviour follows one search
\* until it returns.
CreateDocument ==
    /\ ~Returned
    /\ Cardinality(documents) < MaxDocs
    /\ \E doc \in DocCatalogue :
           /\ doc.id \notin {x.id : x \in documents}
           /\ \E c \in clients : c.id = doc.client_id
           /\ documents' = documents \cup {doc}
    /\ UNCHANGED <<clients, out, req, hist>>

(***************************************************************************)
(* perform_search and the endpoint GET /search                             *)
(***************************************************************************)
SEARCH_MAX_LIMIT == 100

SEARCH_MIN_LIMIT == 1

SearchTypes == {"all", "clients", "documents"}

\* if search_type in ["all", "clients"]
SearchesClients(search_type) == search_type \in {"all", "clients"}

\* perform_search searching the documents whatever the scope
SearchesDocumentsAnyScope(search_type) == TRUE

\* if search_type in ["all", "documents"]
SearchesDocuments(search_type) == search_type \in {"all", "documents"}

\* the functions that run inside perform_search
PerformSearchCalls(query, search_type) ==
    (IF SearchesClients(search_type) THEN {"search_clients"} ELSE {})
    \cup (IF SearchesDocuments(search_type)
          THEN {"search_documents_hybrid", "search_documents_keyword",
                "search_documents_semantic"}
               \cup (IF Strip(query) # <<>> THEN {"generate_embedding"} ELSE {})
          ELSE {})

\* perform_search up to the return of its first read of the store: the client
\* search when the scope has clients, else the keyword search of the hybrid
\* search.  pc is the statement that follows.
PerformSearchBegin(caller, client_store, doc_store, query, search_type, limit) ==
    IF SearchesClients(search_type)
    THEN {Running(caller, IF SearchesDocuments(search_type) THEN "keyword" ELSE "return",
                  query, search_type, limit, DefaultWeights, clients_results, <<>>) :
             clients_results \in SearchClientsResults(client_store, query, limit)}
    ELSE IF SearchesDocuments(search_type)
         THEN {Running(caller, "semantic", query, search_type, limit, DefaultWeights,
                       <<>>, keyword_results) :
                  keyword_results \in SearchDocumentsKeywordResults(doc_store, query, limit)}
         ELSE {Running(caller, "return", query, search_type, limit, DefaultWeights,
                       <<>>, <<>>)}

\* what perform_search returns, with what the two searches returned to it (the
\* empty list for a search that did not run)
PerformSearchReturn(call, documents_results) ==
    [op |-> "perform_search", query |-> call.query, search_type |-> call.search_type,
     limit |-> call.limit, calls |-> PerformSearchCalls(call.query, call.search_type),
     search_clients_returned |-> call.clients_results,
     search_documents_hybrid_returned |-> documents_results,
     clients_results |-> call.clients_results,
     documents_results |-> documents_results]

\* the match_score field of the response models: Field(ge=0.0, le=1.0)
ValidScore(score) == RLeq(RZero, score) /\ RLeq(score, ROne)

BadRequest(detail) ==
    [status |-> 400, detail |-> detail, calls |-> {}, clients |-> <<>>,
     documents |-> <<>>, total_results |-> 0]

\* the response to a request that passed the validation, built from the lists
\* of perform_search
SearchResponse(q, type, clients_results, documents_results) ==
    LET valid == /\ \A i \in 1..Len(clients_results) : ValidScore(clients_results[i].score)
                 /\ \A i \in 1..Len(documents_results) :
                        ValidScore(documents_results[i].score)
    IN [status |-> IF valid THEN 200 ELSE 500,
        detail |-> <<>>,
        calls |-> {"perform_search"} \cup PerformSearchCalls(q, type),
        clients |-> IF valid THEN clients_results ELSE <<>>,
        documents |-> IF valid THEN documents_results ELSE <<>>,
        total_results |-> IF valid THEN Len(clients_results) + Len(documents_results) ELSE 0]

\* what the endpoint answers after perform_search returned
SearchReturn(call, documents_results) ==
    [op |-> "search", q |-> call.query, type |-> call.search_type, limit |-> call.limit,
     response |-> SearchResponse(call.query, call.search_type, call.clients_results,
                                 documents_results)]

\* ValidationError with the upper end of the limit window left unchecked
ValidationErrorNoUpperLimit(q, limit) ==
    IF Strip(q) = <<>> THEN "Search query cannot be empty"
    ELSE IF limit < SEARCH_MIN_LIMIT THEN "Limit must be between 1 and 100"
    ELSE ""

\* the detail of the 400 answer of the endpoint, "" for a request it accepts
ValidationError(q, limit) ==
    IF Strip(q) = <<>> THEN "Search query cannot be empty"
    ELSE IF limit < SEARCH_MIN_LIMIT \/ limit > SEARCH_MAX_LIMIT
         THEN "Limit must be between 1 and 100"
    ELSE ""

\* the queries of the endpoint: the empty one, those of one character, the
\* phrases
ApiQueries == StringsUpTo(DocAlphabet, 1) \cup PhraseQueries

\* the limits around the accepted window

ApiLimits == {SEARCH_MIN_LIMIT - 1, SEARCH_MIN_LIMIT, MaxLimit, SEARCH_MAX_LIMIT,
              SEARCH_MAX_LIMIT + 1}

\* a store that holds the owner of the documents and documents, full or with
\* room for one more row
ApiInit ==
    /\ clients \in {S \in ClientStores :
                       Cardinality(S) >= MaxClients - 1 /\ SummaryClients \subseteq S}
    /\ documents \in {S \in DocStores :
                         /\ Cardinality(S) >= MaxDocs - 1
                         /\ {1, 4} \subseteq {doc.id : doc \in S}}
    /\ out = NoOut
    /\ req = NoReq
    /\ hist = NoHist

\* perform_search called on its own, up to its first read; a call of scope
\* "clients" returns after it
PerformSearch ==
    /\ out = NoOut
    /\ \E query \in ApiQueries, search_type \in SearchTypes, limit \in 1..MaxLimit :
           \E call \in PerformSearchBegin("perform_search", clients, documents, query,
                                          search_type, limit) :
               out' = IF call.pc = "return" THEN PerformSearchReturn(call, <<>>) ELSE call
    /\ UNCHANGED <<clients, documents, req, hist>>

\* GET /search: the validation, then perform_search up to its first read
search ==
    /\ out = NoOut
    /\ \E q \in ApiQueries, type \in SearchTypes, limit \in ApiLimits :
           IF ValidationError(q, limit) # ""
           THEN out' = [op |-> "search", q |-> q, type |-> type, limit |-> limit,
                        response |-> BadRequest(ValidationError(q, limit))]
           ELSE \E call \in PerformSearchBegin("search", clients, documents, q, type, limit) :
                    out' = IF call.pc = "return" THEN SearchReturn(call, <<>>) ELSE call
    /\ UNCHANGED <<clients, documents, req, hist>>

\* the keyword search of search_documents_hybrid, called by perform_search
\* after search_clients returned
HybridKeywordSearch ==
    /\ IsRunning
    /\ out.pc = "keyword"
    /\ \E keyword_results \in SearchDocumentsKeywordResults(documents, out.query, out.limit) :
           out' = [out EXCEPT !.pc = "semantic", !.keyword_results = keyword_results]
    /\ UNCHANGED <<clients, documents, req, hist>>

\* the rest of search_documents_hybrid, its second read of the documents table
\* included, and the return of its callers
HybridSemanticSearch ==
    /\ IsRunning
    /\ out.pc = "semantic"
    /\ \E f \in HybridFinish(out.keyword_results, documents, out.query, out.limit,
                             out.weights) :
           out' = IF out.caller = "search_documents_hybrid" THEN HybridReturn(out, f)
                  ELSE IF out.caller = "perform_search"
                       THEN PerformSearchReturn(out, f.results)
                       ELSE SearchReturn(out, f.results)
    /\ UNCHANGED <<clients, documents, req, hist>>

\* crud.create_client called by another request, before the search or between
\* two of its statements; the email is unique
CreateClient ==
    /\ ~Returned
    /\ Cardinality(clients) < MaxClients
    /\ \E client \in ClientCatalogue :
           /\ \A c \in clients : c.id # client.id /\ c.email # client.email
           /\ clients' = clients \cup {client}
    /\ UNCHANGED <<documents, out, req, hist>>

ApiNext ==
    \/ PerformSearch
    \/ search
    \/ HybridKeywordSearch
    \/ HybridSemanticSearch
    \/ CreateClient
    \/ CreateDocument

ApiSpec == ApiInit /\ [][ApiNext]_vars

(***************************************************************************)
(* The document searches called on their own.                              *)
(***************************************************************************)
DocNext ==
    \/ SearchDocumentsKeyword
    \/ SearchDocumentsSemantic
    \/ SearchDocumentsHybrid
    \/ HybridSemanticSearch
    \/ CreateDocument

DocSpec == DocInit /\ [][DocNext]_vars

(***************************************************************************)
(* The two keyword searches over one store, of clients or of documents.    *)
(***************************************************************************)
KeywordInit == ClientInit \/ DocInit

KeywordNext == SearchClients \/ SearchDocumentsKeyword

KeywordSpec == KeywordInit /\ [][KeywordNext]_vars

(***************************************************************************)
(* summarizer.py                                                           *)
(***************************************************************************)
IsTerminal(c) == c \in {".", "!", "?"}

\* re.split(r'(?<=[.!?])\s+', content): cut at every run of whitespace that
\* follows a '.', '!' or '?'; the run itself is dropped
RECURSIVE SplitSentences(_)
SplitSentences(s) ==
    LET cuts == {i \in 2..Len(s) : IsWhitespace(s[i]) /\ IsTerminal(s[i - 1])}
    IN IF cuts = {} THEN <<s>>
       ELSE LET i == CHOOSE c \in cuts : \A e \in cuts : c <= e
                after == {j \in (i + 1)..Len(s) : ~IsWhitespace(s[j])}
                j == IF after = {} THEN Len(s) + 1
                     ELSE CHOOSE a \in after : \A b \in after : a <= b
            IN <<SubSeq(s, 1, i - 1)>> \o SplitSentences(SubSeq(s, j, Len(s)))

\* s.rsplit(' ', 1)[0]: what precedes the last space, or s when it has none
BeforeLastSpace(s) ==
    LET spaces == {i \in 1..Len(s) : s[i] = " "}
    IN IF spaces = {} THEN s
       ELSE SubSeq(s, 1, (CHOOSE i \in spaces : \A j \in spaces : i >= j) - 1)

Ellipsis == <<".", ".", ".">>

\* the loop over sentences[:2], from the summary built so far
RECURSIVE Accumulate(_, _, _)
Accumulate(summary, sentences, max_length) ==
    IF sentences = <<>> THEN summary
    ELSE LET sentence == Head(sentences)
             test_summary == IF summary # <<>> THEN summary \o <<" ">> \o sentence
                             ELSE sentence
         IN IF Len(test_summary) > max_length
            THEN IF summary = <<>>
                 THEN BeforeLastSpace(Take(sentence, max_length)) \o Ellipsis
                 ELSE summary
            ELSE Accumulate(test_summary, Tail(sentences), max_length)

\* fallback_summary building the summary from the first three sentences
fallback_summary_three(content, max_length) ==
    LET pieces == SplitSentences(content)
        sentences == SelectSeq([i \in 1..Len(pieces) |-> Strip(pieces[i])],
                               LAMBDA x : x # <<>>)
        summary == Accumulate(<<>>, Take(sentences, 3), max_length)
    IN IF sentences = <<>>
       THEN BeforeLastSpace(Take(content, max_length)) \o Ellipsis
       ELSE Strip(IF summary # <<>> /\ ~IsTerminal(summary[Len(summary)])
                  THEN summary \o Ellipsis
                  ELSE summary)

\* fallback_summary without the ellipsis for a summary that does not end in
\* terminal punctuation
fallback_summary_bare(content, max_length) ==
    LET pieces == SplitSentences(content)
        sentences == SelectSeq([i \in 1..Len(pieces) |-> Strip(pieces[i])],
                               LAMBDA x : x # <<>>)
        summary == Accumulate(<<>>, Take(sentences, 2), max_length)
    IN IF sentences = <<>>
       THEN BeforeLastSpace(Take(content, max_length)) \o Ellipsis
       ELSE Strip(summary)

fallback_summary(content, max_length) ==
    LET pieces == SplitSentences(content)
        sentences == SelectSeq([i \in 1..Len(pieces) |-> Strip(pieces[i])],
                               LAMBDA x : x # <<>>)
        summary == Accumulate(<<>>, Take(sentences, 2), max_length)
    IN IF sentences = <<>>
       THEN BeforeLastSpace(Take(content, max_length)) \o Ellipsis
       ELSE Strip(IF summary # <<>> /\ ~IsTerminal(summary[Len(summary)])
                  THEN summary \o Ellipsis
                  ELSE summary)

\* str.strip('"\''): drop the leading and the trailing quote characters
StripQuotes(s) ==
    LET idx == {i \in 1..Len(s) : s[i] \notin {"\"", "'"}}
    IN IF idx = {} THEN <<>>
       ELSE SubSeq(s, CHOOSE i \in idx : \A j \in idx : i <= j,
                      CHOOSE i \in idx : \A j \in idx : i >= j)

\* what the chat completion may answer (message.content)
SummarizerResponses ==
    {<<"\"", "S", " ", "s", ".", "\"", " ">>, <<"\"", "\"">>}

\* the ways the try block of generate_summary can end
ApiOutcomes ==
    [kind : {"ok"}, response : SummarizerResponses]
        \cup {[kind |-> "no_api_key"], [kind |-> "api_error"]}

\* generate_summary returning short content as it was passed, not stripped
generate_summary_verbatim(content, max_length, api) ==
    LET stripped == Strip(content)
        Result(summary, called, failed) ==
            [summary |-> summary, api_called |-> called, api_failed |-> failed,
             raised |-> FALSE]
    IN IF stripped = <<>> THEN Result(<<>>, FALSE, FALSE)
       ELSE IF Len(stripped) <= max_length THEN Result(content, FALSE, FALSE)
       ELSE IF api.kind = "ok"
            THEN Result(StripQuotes(Strip(api.response)), TRUE, FALSE)
            ELSE Result(fallback_summary(stripped, max_length),
                        api.kind = "api_error", TRUE)

\* generate_summary catching the API error only: a missing API key raises
generate_summary_reraise(content, max_length, api) ==
    LET stripped == Strip(content)
    IN IF stripped = <<>>
       THEN [summary |-> <<>>, api_called |-> FALSE, api_failed |-> FALSE, raised |-> FALSE]
       ELSE IF Len(stripped) <= max_length
       THEN [summary |-> stripped, api_called |-> FALSE, api_failed |-> FALSE,
             raised |-> FALSE]
       ELSE IF api.kind = "ok"
       THEN [summary |-> StripQuotes(Strip(api.response)), api_called |-> TRUE,
             api_failed |-> FALSE, raised |-> FALSE]
       ELSE [summary |-> fallback_summary(stripped, max_length),
             api_called |-> api.kind = "api_error", api_failed |-> TRUE,
             raised |-> api.kind = "no_api_key"]

\* the result of one run of generate_summary, the external outcome given:
\* the summary it returns, whether chat.completions.create was called, whether
\* the summarizer failed and whether an exception leaves the function
generate_summary(content, max_length, api) ==
    LET stripped == Strip(content)
        Result(summary, called, failed) ==
            [summary |-> summary, api_called |-> called, api_failed |-> failed,
             raised |-> FALSE]
    IN IF stripped = <<>> THEN Result(<<>>, FALSE, FALSE)
       ELSE IF Len(stripped) <= max_length THEN Result(stripped, FALSE, FALSE)
       ELSE IF api.kind = "ok"
            THEN Result(StripQuotes(Strip(api.response)), TRUE, FALSE)
            ELSE Result(fallback_summary(stripped, max_length),
                        api.kind = "api_error", TRUE)

(***************************************************************************)
(* fallback_summary called on its own.                                     *)
(***************************************************************************)
FallbackAlphabet == {"a", " ", "."}

\* three sentences with the three terminal characters
LongContents == {<<"a", ".", " ", "a", "!", " ", "a", "?">>,
                 <<"a", "a", "?", " ", " ", "a", " ", "a", "!", " ", "a">>}

FallbackContents == StringsUpTo(FallbackAlphabet, MaxContentLen) \cup LongContents

FallbackLengths == 1..(MaxContentLen + 3)

FallbackInit ==
    /\ clients = {}
    /\ documents = {}
    /\ out \in [op : {"call"}, content : FallbackContents, max_length : FallbackLengths]
    /\ req = NoReq
    /\ hist = NoHist

FallbackSummary ==
    /\ out.op = "call"
    /\ out' = [op |-> "fallback_summary", content |-> out.content,
               max_length |-> out.max_length,
               summary |-> fallback_summary(out.content, out.max_length)]
    /\ UNCHANGED <<clients, documents, req, hist>>

FallbackNext == FallbackSummary

FallbackSpec == FallbackInit /\ [][FallbackNext]_vars

(***************************************************************************)
(* calculate_similarity called on its own.                                 *)
(***************************************************************************)
\* the vectors of two coordinates within the bound whose norm is an integer,
\* and one vector of another length
SimilarityVectors ==
    {v \in [1..2 -> -MaxCoord..MaxCoord] :
        \E k \in 0..(2 * MaxCoord) : k * k = Dot(v, v)} \cup {<<1>>}

SimilarityInit ==
    /\ clients = {}
    /\ documents = {}
    /\ out \in [op : {"call"}, embedding1 : SimilarityVectors, embedding2 : SimilarityVectors]
    /\ req = NoReq
    /\ hist = NoHist

CalculateSimilarity ==
    /\ out.op = "call"
    /\ out' = [op |-> "calculate_similarity", embedding1 |-> out.embedding1,
               embedding2 |-> out.embedding2,
               similarity |-> calculate_similarity(out.embedding1, out.embedding2)]
    /\ UNCHANGED <<clients, documents, req, hist>>

SimilarityNext == CalculateSimilarity

SimilaritySpec == SimilarityInit /\ [][SimilarityNext]_vars

(***************************************************************************)
(* get_or_generate_summary (crud.py), as the steps of one request: the     *)
(* read of the document, the run of generate_summary, the commit.          *)
(***************************************************************************)
Requests == 1..NumRequests

\* the max_length arguments tried, small like the contents
MaxLengths == {2, 5}

IdleRequest == [pc |-> "idle"]

\* Python truth of document.summary: set and not empty
Truthy(summary) == summary # NULL /\ summary # <<>>

\* the cached flag of the endpoint, computed before get_or_generate_summary
\* runs:  document.summary is not None and not regenerate
WasCached(summary, regenerate) == summary # NULL /\ ~regenerate

\* the test that returns the cached summary
CacheHit(summary, regenerate) == Truthy(summary) /\ ~regenerate

\* Committed filling the column only when it is empty
CommittedIfAbsent(old, seen, new) == IF old = NULL THEN new ELSE old

\* the assignment  document.summary = summary  changes the loaded object, and
\* the commit sends an UPDATE, only when the value differs from the one this
\* session loaded
Updates(seen, new) == new # seen

\* the value of the row after  document.summary = summary; db.commit():  old is
\* the row before the commit, seen the value this session loaded
Committed(old, seen, new) == IF Updates(seen, new) THEN new ELSE old

DocById(id) == CHOOSE doc \in documents : doc.id = id

\* SetSummary as an UPDATE without its WHERE clause
SetSummaryEverywhere(id, summary) ==
    {[doc EXCEPT !.summary = summary] : doc \in documents}

SetSummary(id, summary) ==
    {IF doc.id = id THEN [doc EXCEPT !.summary = summary] ELSE doc : doc \in documents}

NextWrites(w) == IF w = "none" THEN "once" ELSE "many"

\* the requests on document id that have read it and not yet committed
InFlight(id) ==
    {q \in Requests : req[q].pc \in {"generate", "commit"} /\ req[q].document_id = id}

\* get_document, then the cache test: a hit returns at once.  The requests
\* are numbered in the order of their reads.  The endpoint reads the document
\* in the same session just before, so its cached flag is computed from the
\* row that the cache test sees.
ReadDocument(r) ==
    /\ req[r].pc = "idle"
    /\ r > 1 => req[r - 1].pc # "idle"
    /\ \E doc \in documents, max_length \in MaxLengths, regenerate \in BOOLEAN :
           LET hit == CacheHit(doc.summary, regenerate)
           IN /\ req' = [req EXCEPT ![r] =
                            [pc |-> IF hit THEN "done" ELSE "generate",
                             document_id |-> doc.id, content |-> doc.content,
                             max_length |-> max_length, regenerate |-> regenerate,
                             seen |-> doc.summary,
                             cached |-> WasCached(doc.summary, regenerate),
                             overlaps |-> InFlight(doc.id),
                             generated |-> FALSE,
                             api_called |-> FALSE, api_failed |-> FALSE,
                             wrote |-> FALSE, updated |-> FALSE,
                             interfered |-> FALSE,
                             summary |-> IF hit THEN doc.summary ELSE NULL]]
              /\ hist' = [hist EXCEPT ![doc.id].regenerate_seen = @ \/ regenerate]
    /\ UNCHANGED <<clients, documents, out>>

\* summary = generate_summary(document.content, max_length=max_length)
GenerateSummary(r) ==
    /\ req[r].pc = "generate"
    /\ \E api \in ApiOutcomes :
           LET g == generate_summary(req[r].content, req[r].max_length, api)
           IN req' = [req EXCEPT ![r].pc = IF g.raised THEN "error" ELSE "commit",
                                 ![r].generated = TRUE,
                                 ![r].api_called = g.api_called,
                                 ![r].api_failed = g.api_failed,
                                 ![r].summary = g.summary]
    /\ UNCHANGED <<clients, documents, out, hist>>

\* document.summary = summary; db.commit(); db.refresh(document); return summary
\* A request is marked interfered when another request updates the row between
\* its read and its commit.
CommitSummary(r) ==
    /\ req[r].pc = "commit"
    /\ LET id == req[r].document_id
           updates == Updates(req[r].seen, req[r].summary)
       IN /\ documents' = SetSummary(id, Committed(DocById(id).summary, req[r].seen,
                                                   req[r].summary))
          /\ req' = [q \in Requests |->
                        IF q = r
                        THEN [req[r] EXCEPT !.pc = "done", !.wrote = TRUE,
                                            !.updated = updates]
                        ELSE IF updates /\ q \in InFlight(id)
                             THEN [req[q] EXCEPT !.interfered = TRUE]
                             ELSE req[q]]
          /\ hist' = [hist EXCEPT ![id].writes = IF updates THEN NextWrites(@) ELSE @,
                                  ![id].last_writer = r]
    /\ UNCHANGED <<clients, out>>

(***************************************************************************)
(* The inputs of the summary requests.                                     *)
(***************************************************************************)
SummaryCatalogue ==
    {Document(1, <<"t">>, <<" ">>, <<0, 0>>),
     Document(2, <<"t">>, <<"a", "b", " ">>, <<1, 0>>),
     Document(3, <<"t">>, <<"a", ".", " ", "b", ".", " ", "c", ".">>, <<0, 1>>),
     Document(4, <<"t">>, <<" ", "a", "b", " ", "c", "d", " ", "e">>, <<3, 4>>)}

\* the summary an earlier request left on a document: what generate_summary
\* returns without an API key
EarlierSummary(doc) ==
    generate_summary(doc.content, 5, [kind |-> "no_api_key"]).summary

\* a store of one document, or of two, as create_document left them, and a
\* store whose document an earlier request has summarized
SummaryStores ==
    {{doc} : doc \in SummaryCatalogue}
        \cup {{doc \in SummaryCatalogue : doc.id \in {1, 3}}}
        \cup {{[doc EXCEPT !.summary = EarlierSummary(doc)]} :
                 doc \in {d \in SummaryCatalogue : d.id = 4}}

SummaryInit ==
    /\ clients = SummaryClients
    /\ documents \in SummaryStores
    /\ out = NoOut
    /\ req = [r \in Requests |-> IdleRequest]
    /\ hist = [id \in {doc.id : doc \in documents} |->
                  [writes |-> IF DocById(id).summary = NULL THEN "none" ELSE "once",
                   last_writer |-> 0, regenerate_seen |-> FALSE]]

SummaryNext ==
    \E r \in Requests : ReadDocument(r) \/ GenerateSummary(r) \/ CommitSummary(r)

SummarySpec == SummaryInit /\ [][SummaryNext]_vars

(***************************************************************************)
(* Claims about fallback_summary.                                          *)
(***************************************************************************)
IsFallback == out.op = "fallback_summary"

\* the sentences of the content: the pieces between the whitespace runs that
\* follow a '.', '!' or '?', trimmed, the empty ones dropped
Sentences(content) ==
    LET pieces == SplitSentences(content)
    IN SelectSeq([i \in 1..Len(pieces) |-> Strip(pieces[i])], LAMBDA x : x # <<>>)

EndsTerminal(s) == s # <<>> /\ IsTerminal(s[Len(s)])

\* C17: when the first two sentences of the content, joined by one space, are
\* no longer than max_length, fallback_summary returns exactly that, with no
\* ellipsis when it ends in '.', '!' or '?' (and the ellipsis appended when it
\* does not); a third sentence is never part of the result, which holds two
\* sentences at most.
C17_TwoSentences ==
    IsFallback =>
        LET sentences == Sentences(out.content)
            joined == sentences[1] \o <<" ">> \o sentences[2]
        IN /\ (Len(sentences) >= 2 /\ Len(joined) <= out.max_length) =>
                  out.summary = IF EndsTerminal(joined) THEN joined
                                ELSE joined \o Ellipsis
           /\ Len(Sentences(out.summary)) <= 2

\* three sentences and a max_length that all three fit in: the first two are
\* returned, without an ellipsis
C17_Witness ==
    /\ IsFallback
    /\ Len(Sentences(out.content)) = 3
    /\ Len(Strip(out.content)) <= out.max_length
    /\ out.summary = Sentences(out.content)[1] \o <<" ">> \o Sentences(out.content)[2]
    /\ EndsTerminal(out.summary)
    /\ Sentences(out.content)[1] # Sentences(out.content)[2]

\* C18: fallback_summary returns a string no longer than max_length whenever
\* the first sentence of the content is no longer than max_length.
C18_WithinMaxLength ==
    IsFallback =>
        LET sentences == Sentences(out.content)
        IN (sentences # <<>> /\ Len(sentences[1]) <= out.max_length) =>
               Len(out.summary) <= out.max_length

\* C19: fallback_summary of content that is empty after trimming returns
\* exactly "...".
C19_BlankGivesEllipsis ==
    (IsFallback /\ Strip(out.content) = <<>>) => out.summary = Ellipsis

\* C30: for every content and every max_length >= 1 fallback_summary returns a
\* non-empty string whose last character is '.', '!' or '?'; a first sentence
\* longer than max_length is returned as a non-empty beginning of that
\* sentence, no longer than max_length, followed by the ellipsis appended to
\* it once (the final test does not append it a second time), so the result
\* ends in two ellipses only when the kept beginning itself ends in "...";
\* a fitting first sentence without terminal punctuation gets the ellipsis.
C30_EndsInPunctuation ==
    (IsFallback /\ out.max_length >= 1) =>
        LET sentences == Sentences(out.content)
            kept == SubSeq(out.summary, 1, Len(out.summary) - Len(Ellipsis))
        IN /\ out.summary # <<>>
           /\ EndsTerminal(out.summary)
           /\ (sentences # <<>> /\ Len(sentences[1]) > out.max_length) =>
                  /\ EndsWith(out.summary, Ellipsis)
                  /\ kept # <<>>
                  /\ Len(kept) <= out.max_length
                  /\ StartsWith(sentences[1], kept)
                  /\ EndsWith(out.summary, Ellipsis \o Ellipsis)
                         <=> EndsWith(kept, Ellipsis)
           /\ (sentences # <<>> /\ Len(sentences[1]) <= out.max_length
                   /\ ~EndsTerminal(sentences[1])) =>
                  out.summary = sentences[1] \o Ellipsis

\* C30 as stated: the result is non-empty and ends in '.', '!' or '?', and a
\* truncated first sentence ends in "..." exactly once, never in a doubled
\* ellipsis.
C30_NeverDoubledEllipsis ==
    (IsFallback /\ out.max_length >= 1) =>
        LET sentences == Sentences(out.content)
        IN /\ out.summary # <<>>
           /\ EndsTerminal(out.summary)
           /\ (sentences # <<>> /\ Len(sentences[1]) > out.max_length) =>
                  /\ EndsWith(out.summary, Ellipsis)
                  /\ ~EndsWith(out.summary, Ellipsis \o Ellipsis)

\* a first sentence longer than max_length whose kept beginning is the
\* content's own three dots: the ellipsis is appended to it once
C30_Witness ==
    /\ IsFallback
    /\ Sentences(out.content) # <<>>
    /\ Len(Sentences(out.content)[1]) > out.max_length
    /\ StartsWith(Sentences(out.content)[1], Ellipsis)
    /\ out.summary = Ellipsis \o Ellipsis

(***************************************************************************)
(* Claims about calculate_similarity.                                      *)
(***************************************************************************)
IsSimilarity == out.op = "calculate_similarity"

\* C22: calculate_similarity returns exactly 0.0 whenever one of the two
\* vectors has norm zero, in particular for two all-zero embeddings.
C22_ZeroNormGivesZero ==
    IsSimilarity =>
        ((Dot(out.embedding1, out.embedding1) = 0 \/ Dot(out.embedding2, out.embedding2) = 0)
            => out.similarity = RZero)

(***************************************************************************)
(* Claims about get_or_generate_summary.                                   *)
(***************************************************************************)
InSummarySpec == req # NoReq

Started == IF InSummarySpec THEN {r \in Requests : req[r].pc # "idle"} ELSE {}

\* the requests whose generate_summary has returned
Generated == {r \in Started : req[r].generated}

Stored(r) == DocById(req[r].document_id).summary

\* request r has returned and no request committed to its document after it
LastWriter(r) == req[r].pc = "done" /\ hist[req[r].document_id].last_writer = r

\* request r has returned and no other request wrote its document since r
\* read it
Undisturbed(r) == LastWriter(r) /\ ~req[r].interfered

\* C3: get_or_generate_summary with regenerate=false on a document whose
\* summary is set returns the stored summary, does not call generate_summary
\* and does not write the summary.
C3_CachedNotRegenerated ==
    \A r \in Started :
        (~req[r].regenerate /\ req[r].seen # NULL) =>
            /\ req[r].pc = "done"
            /\ ~req[r].generated
            /\ ~req[r].wrote
            /\ req[r].summary = req[r].seen

\* C4: while no request passes regenerate=true, the summary of a document is
\* written at most once, in interleaved executions too: once written, no later
\* call with regenerate=false generates or writes it again.
C4_PopulatedAtMostOnce ==
    InSummarySpec =>
        \A id \in DOMAIN hist :
            ~hist[id].regenerate_seen => hist[id].writes # "many"

\* What the cache test of crud.py does guarantee: a call with regenerate=false
\* that reads a non-empty stored summary returns it and neither generates nor
\* writes.
NonEmptySummaryServed ==
    \A r \in Started :
        (~req[r].regenerate /\ Truthy(req[r].seen)) =>
            /\ req[r].pc = "done"
            /\ ~req[r].generated
            /\ ~req[r].wrote
            /\ req[r].summary = req[r].seen
            /\ hist[req[r].document_id].writes # "none"

\* a second request served from a non-empty summary that the first one wrote
NonEmptySummaryServedWitness ==
    InSummarySpec /\
    \E r \in Started :
        /\ ~req[r].regenerate /\ Truthy(req[r].seen) /\ req[r].pc = "done"
        /\ hist[req[r].document_id].writes = "once"
        /\ ~hist[req[r].document_id].regenerate_seen
        /\ Stored(r) = req[r].summary

\* C5 as claimed: when the content is no longer than max_length, a generating
\* call returns the content verbatim without calling the external summarizer,
\* and that value is what it persists.
C5_ShortContentVerbatim ==
    \A r \in Generated :
        Len(req[r].content) <= req[r].max_length =>
            /\ req[r].summary = req[r].content
            /\ ~req[r].api_called
            /\ Undisturbed(r) => Stored(r) = req[r].content

\* C5, amended: when the content is no longer than max_length, a generating
\* call returns the content stripped of its leading and trailing whitespace,
\* without calling the external summarizer, and persists that value.
C5_ShortContentStripped ==
    \A r \in Generated :
        Len(req[r].content) <= req[r].max_length =>
            /\ req[r].summary = Strip(req[r].content)
            /\ ~req[r].api_called /\ ~req[r].api_failed
            /\ req[r].pc \in {"commit", "done"}
            /\ Undisturbed(r) => Stored(r) = Strip(req[r].content)

\* short content with whitespace at an end, generated, returned and stored
C5_Witness ==
    InSummarySpec /\
    \E r \in Generated :
        /\ Len(req[r].content) <= req[r].max_length
        /\ Strip(req[r].content) # req[r].content
        /\ req[r].summary # <<>>
        /\ LastWriter(r)
        /\ Stored(r) = req[r].summary

\* C6: when the external summarizer fails (the API call raises, or no API key is
\* set), generate_summary raises nothing and returns
\* fallback_summary(content, max_length), which get_or_generate_summary persists
\* and returns; no request ever ends in an error.
C6_FailureFallsBack ==
    \A r \in Started :
        /\ req[r].pc # "error"
        /\ (req[r].generated /\ req[r].api_failed) =>
              /\ req[r].summary = fallback_summary(req[r].content, req[r].max_length)
              /\ Undisturbed(r) => Stored(r) = req[r].summary

\* a request that found no API key and returned, the fallback summary stored,
\* longer than max_length
C6_Witness ==
    InSummarySpec /\
    \E r \in Generated :
        /\ req[r].api_failed /\ ~req[r].api_called
        /\ LastWriter(r)
        /\ Stored(r) = fallback_summary(req[r].content, req[r].max_length)
        /\ Len(Stored(r)) > req[r].max_length

\* C7: when a generating call (regenerate=true, or no summary stored) has
\* returned s and no other request wrote the document after it, the stored
\* summary is s, whatever was stored before.
C7_ReturnedIsStored ==
    \A r \in Generated :
        Undisturbed(r) => (req[r].wrote /\ Stored(r) = req[r].summary)

\* a regenerate=true call that replaced a different non-empty summary
C7_Witness ==
    InSummarySpec /\
    \E r \in Generated :
        /\ req[r].regenerate /\ Truthy(req[r].seen)
        /\ req[r].seen # req[r].summary
        /\ LastWriter(r)
        /\ Stored(r) = req[r].summary

\* C21: in every summary response the cached flag is true exactly when the
\* summary was served from the stored value, generate_summary not called and
\* nothing written, and false exactly when a summary was generated; a request
\* with regenerate=true reports cached=false.
C21_CachedFlag ==
    \A r \in Started :
        req[r].pc = "done" =>
            /\ req[r].cached <=> (~req[r].generated /\ ~req[r].wrote)
            /\ req[r].regenerate => ~req[r].cached

\* a document without its summary field
Unsummarized(doc) ==
    [id |-> doc.id, client_id |-> doc.client_id, title |-> doc.title,
     content |-> doc.content, embedding |-> doc.embedding]

\* C25: a step of get_or_generate_summary changes nothing but the summary of
\* the document it addresses: that document's embedding, title, content and
\* owner, every other document and every client stay as they were.
C25_OnlySummaryChanges ==
    [][/\ clients' = clients
       /\ {Unsummarized(doc) : doc \in documents'} = {Unsummarized(doc) : doc \in documents}
       /\ documents' # documents =>
              \E r \in Requests :
                  /\ req[r].pc = "commit" /\ req'[r].pc = "done"
                  /\ \A doc \in documents :
                         doc.id # req[r].document_id => doc \in documents']_vars

\* a store of two documents after a request wrote a non-empty summary to one
\* of them: the other one still has none
C25_Witness ==
    /\ InSummarySpec
    /\ clients # {}
    /\ \E r \in Generated :
           /\ LastWriter(r)
           /\ Truthy(Stored(r))
           /\ \E doc \in documents : doc.id # req[r].document_id /\ doc.summary = NULL

\* C27: when two get_or_generate_summary calls on one document interleave,
\* both reading before either commits, both complete without error and the
\* summary stored afterwards is the one written by the call that committed
\* last.
C27_LastWriterWins ==
    \A r1, r2 \in Started :
        (r1 \in req[r2].overlaps /\ ~CacheHit(req[r2].seen, req[r2].regenerate)) =>
            /\ req[r1].pc # "error" /\ req[r2].pc # "error"
            /\ (req[r1].pc = "done" /\ req[r2].pc = "done") =>
                   /\ req[r1].wrote /\ req[r2].wrote
                   /\ \A w \in {r1, r2} : LastWriter(w) => Stored(w) = req[w].summary

\* two interleaved calls, both returned with different summaries: the one that
\* read first committed last and its summary is the stored one
C27_Witness ==
    /\ InSummarySpec
    /\ \E r1, r2 \in Started :
           /\ r1 \in req[r2].overlaps
           /\ req[r1].pc = "done" /\ req[r2].pc = "done"
           /\ req[r1].wrote /\ req[r2].wrote
           /\ req[r1].summary # req[r2].summary
           /\ LastWriter(r1)
           /\ Stored(r1) = req[r1].summary

\* C20: every summary request that returns answers with a summary no longer
\* than its max_length, in any sequence of requests on the document with
\* varying max_length and regenerate.
C20_SummaryLengthBounded ==
    \A r \in Started :
        req[r].pc = "done" => Len(req[r].summary) <= req[r].max_length

(***************************************************************************)
(* Claims about the document searches.                                     *)
(***************************************************************************)
IsHybrid == out.op = "search_documents_hybrid"

HybridResults == IF IsHybrid THEN out.results ELSE <<>>

\* C1: every document returned by search_documents_hybrid with weights
\* (Wk, Ws) has score kw*Wk + sem*Ws and match_field "hybrid" when it is in the
\* keyword list and in the semantic list, score kw*Wk and the keyword
\* match_field ("title" or "content") when it is in the keyword list only, and
\* score sem*Ws and match_field "semantic" when it is in the semantic list only.
C1_HybridScores ==
    \A i \in 1..Len(HybridResults) :
        LET r == HybridResults[i]
            Wk == out.weights.KEYWORD_WEIGHT
            Ws == out.weights.SEMANTIC_WEIGHT
            inKeyword == r.doc.id \in Ids(out.keyword_results)
            inSemantic == r.doc.id \in Ids(out.semantic_results)
            kw == EntryOf(out.keyword_results, r.doc.id)
            sem == EntryOf(out.semantic_results, r.doc.id)
        IN /\ inKeyword \/ inSemantic
           /\ (inKeyword /\ inSemantic) =>
                  /\ r.score = RAdd(RMul(kw.score, Wk), RMul(sem.score, Ws))
                  /\ r.match_field = "hybrid"
           /\ (inKeyword /\ ~inSemantic) =>
                  /\ r.score = RMul(kw.score, Wk)
                  /\ r.match_field = kw.match_field
                  /\ r.match_field \in {"title", "content"}
           /\ (~inKeyword /\ inSemantic) =>
                  /\ r.score = RMul(sem.score, Ws)
                  /\ r.match_field = "semantic"

\* a hybrid result list that holds a document of both lists, whose two scores
\* are both positive, next to a document of one list only
C1_Witness ==
    /\ IsHybrid
    /\ \E i, j \in 1..Len(out.results) :
           /\ out.results[i].match_field = "hybrid"
           /\ RLess(RZero, EntryOf(out.keyword_results, out.results[i].doc.id).score)
           /\ RLess(RZero, EntryOf(out.semantic_results, out.results[i].doc.id).score)
           /\ out.results[j].match_field \in {"title", "content", "semantic"}

\* C14: under the configured weights and similarity threshold, every result
\* of search_documents_hybrid has a score in [0,1], the range that the response
\* schema accepts for match_score.
C14_HybridScoreRange ==
    (IsHybrid /\ out.weights = DefaultWeights) =>
        \A i \in 1..Len(out.results) :
            /\ RLeq(RZero, out.results[i].score)
            /\ RLeq(out.results[i].score, ROne)

\* a hybrid search under the configured weights that returns a document with
\* keyword score 1 and similarity 1, combined score 1, and another document
C14_Witness ==
    /\ IsHybrid
    /\ out.weights = DefaultWeights
    /\ \E i, j \in 1..Len(out.results) :
           /\ out.results[i].score = ROne
           /\ out.results[i].match_field = "hybrid"
           /\ RLess(out.results[j].score, ROne)

\* C23: when generate_embedding fails for the query and returns the all-zero
\* vector, search_documents_hybrid returns exactly the keyword results, each
\* with score kw*Wk and its keyword match_field, and no entry tagged
\* "semantic" or "hybrid".
C23_KeywordOnlyOnZeroEmbedding ==
    (IsHybrid /\ out.query_embedding = ZeroVector) =>
        /\ out.semantic_results = <<>>
        /\ out.results =
               [i \in 1..Len(out.keyword_results) |->
                   [doc |-> out.keyword_results[i].doc,
                    score |-> RMul(out.keyword_results[i].score, out.weights.KEYWORD_WEIGHT),
                    match_field |-> out.keyword_results[i].match_field]]
        /\ \A i \in 1..Len(out.results) : out.results[i].match_field \in {"title", "content"}

\* a hybrid search with the zero query embedding over documents that have
\* embeddings, returning two keyword matches
C23_Witness ==
    /\ IsHybrid
    /\ out.query_embedding = ZeroVector
    /\ Len(out.results) = 2
    /\ RLess(out.results[2].score, out.results[1].score)
    /\ \A i \in 1..2 : out.results[i].doc.embedding # ZeroVector

\* the scores of a result list, in order
Scores(results) == [i \in 1..Len(results) |-> results[i].score]

\* a limit that truncates neither search over the store
CompleteLimit == Cardinality(documents) + 1

\* C26: the hybrid search does not truncate before merging: the scores of the
\* returned list are the `limit` highest merged scores over the complete
\* keyword and semantic result sets.
C26_MergesCompleteResults ==
    IsHybrid =>
        \E keyword_results \in SearchDocumentsKeywordResults(documents, out.query,
                                                             CompleteLimit),
           semantic_results \in SearchDocumentsSemanticResults(documents, out.query,
                                    out.query_embedding, CompleteLimit,
                                    SEMANTIC_SIMILARITY_THRESHOLD) :
            Scores(out.results) =
                Scores(HybridMerge(keyword_results, semantic_results, out.weights, out.limit))

IsSemantic == out.op = "search_documents_semantic"

\* the semantic result list of the last call and the threshold it ran with
SemanticResults ==
    IF IsSemantic THEN out.results ELSE IF IsHybrid THEN out.semantic_results ELSE <<>>

SemanticThreshold ==
    IF IsSemantic THEN out.similarity_threshold ELSE SEMANTIC_SIMILARITY_THRESHOLD

\* C2: every result of search_documents_semantic has a cosine similarity to
\* the query embedding strictly greater than similarity_threshold, carries that
\* similarity as its score and has match_field "semantic".
C2_AboveThreshold ==
    \A i \in 1..Len(SemanticResults) :
        LET r == SemanticResults[i]
            similarity == Similarity(r.doc.embedding, out.query_embedding)
        IN /\ RLess(SemanticThreshold, similarity)
           /\ r.score = similarity
           /\ r.match_field = "semantic"

\* a semantic search that returns a document and leaves out a stored document
\* whose similarity equals the threshold
C2_Witness ==
    /\ IsSemantic
    /\ Len(out.results) > 0
    /\ \E doc \in documents :
           /\ Similarity(doc.embedding, out.query_embedding) = out.similarity_threshold
           /\ doc.id \notin Ids(out.results)
           /\ Cardinality(documents) <= out.limit

(***************************************************************************)
(* Claims about search_documents_keyword.                                  *)
(***************************************************************************)
IsKeyword == out.op = "search_documents_keyword"

\* the keyword result list of the last call
KeywordResults ==
    IF IsKeyword THEN out.results ELSE IF IsHybrid THEN out.keyword_results ELSE <<>>

DocQuery == Strip(Lower(out.query))

\* the whole query is a substring of the title or of the content
PhraseOccurs(doc, q) == Contains(Lower(doc.title), q) \/ Contains(Lower(doc.content), q)

\* the positions of the query words that occur in the title or in the content
WordsOccurring(doc, query_words) ==
    {i \in 1..Len(query_words) :
        \/ Contains(Lower(doc.title), query_words[i])
        \/ Contains(Lower(doc.content), query_words[i])}

\* the place of a document in a list of rows or of entries, 0 when absent
RowIndex(rows, id) ==
    IF \E i \in 1..Len(rows) : rows[i].id = id
    THEN CHOOSE i \in 1..Len(rows) : rows[i].id = id ELSE 0

EntryIndex(results, id) ==
    IF id \in Ids(results)
    THEN CHOOSE i \in 1..Len(results) : results[i].doc.id = id ELSE 0

\* the place of a document in the merge of the hybrid search: keyword list
\* first, then the semantic-only documents
MergeRank(id) ==
    IF id \in Ids(out.keyword_results) THEN EntryIndex(out.keyword_results, id)
    ELSE Len(out.keyword_results) + EntryIndex(out.semantic_results, id)

\* C28: entries of equal score keep the order in which they were scored: in the
\* keyword search the order of the candidate rows, in the hybrid search the
\* keyword-list order followed by the semantic-only documents in semantic-list
\* order.
C28_TiesKeepScorerOrder ==
    /\ IsKeyword =>
           \A i, j \in 1..Len(out.results) :
               (i < j /\ out.results[i].score = out.results[j].score) =>
                   RowIndex(out.rows, out.results[i].doc.id)
                       < RowIndex(out.rows, out.results[j].doc.id)
    /\ IsHybrid =>
           \A i, j \in 1..Len(out.results) :
               (i < j /\ out.results[i].score = out.results[j].score) =>
                   MergeRank(out.results[i].doc.id) < MergeRank(out.results[j].doc.id)

\* a hybrid search in which a keyword entry and a semantic-only entry tie
C28_Witness ==
    /\ IsHybrid
    /\ \E i, j \in 1..Len(out.results) :
           /\ i < j
           /\ out.results[i].score = out.results[j].score
           /\ out.results[i].doc.id \in Ids(out.keyword_results)
           /\ out.results[j].match_field = "semantic"

\* a keyword search in which two rows tie and the row of the higher id came first
C28_KeywordTie ==
    /\ IsKeyword
    /\ \E i, j \in 1..Len(out.results) :
           /\ i < j
           /\ out.results[i].score = out.results[j].score
           /\ out.results[i].doc.id > out.results[j].doc.id

\* the scores of the phrase tier
PhraseScores == {Rat(1, 1), Rat(9, 10), Rat(7, 10), Rat(1, 2)}

\* C29: in search_documents_keyword a document that contains the whole query
\* phrase has a score in {1.0, 0.9, 0.7, 0.5}, and a document matched only word
\* by word has a score in (0, 0.4], which arises only for a query of two or
\* more words: a phrase-level match always scores above a word-level match.
C29_PhraseAboveWord ==
    \A i \in 1..Len(KeywordResults) :
        LET r == KeywordResults[i]
            query_words == Split(DocQuery)
        IN /\ PhraseOccurs(r.doc, DocQuery) => r.score \in PhraseScores
           /\ (~PhraseOccurs(r.doc, DocQuery) /\ WordsOccurring(r.doc, query_words) # {}) =>
                  /\ RLess(RZero, r.score)
                  /\ RLeq(r.score, Rat(4, 10))
                  /\ Len(query_words) >= 2

\* C11: a document returned by search_documents_keyword for which no phrase
\* rule fires and some query word occurs in its title or content has the score
\* 0.8 * (matched / total) * 0.5, matched being the number of query words that
\* occur in the title or the content, total the number of query words.
C11_WordLevelScore ==
    \A i \in 1..Len(KeywordResults) :
        LET r == KeywordResults[i]
            query_words == Split(DocQuery)
            matched == Cardinality(WordsOccurring(r.doc, query_words))
        IN (~PhraseOccurs(r.doc, DocQuery) /\ matched > 0) =>
               r.score = RMul(RMul(Rat(8, 10), Rat(matched, Len(query_words))), Rat(1, 2))

\* C12: search_documents_keyword returns no document of which neither the
\* whole query nor any query word is a substring of the title or the content.
C12_NoMatchExcluded ==
    \A i \in 1..Len(KeywordResults) :
        LET r == KeywordResults[i]
        IN \/ PhraseOccurs(r.doc, DocQuery)
           \/ WordsOccurring(r.doc, Split(DocQuery)) # {}

\* C13: every result of search_clients and of search_documents_keyword has a
\* score s with 0 <= s <= 1, for every non-empty query and every store.
C13_KeywordScoreRange ==
    /\ \A i \in 1..Len(KeywordResults) :
           /\ RLeq(RZero, KeywordResults[i].score)
           /\ RLeq(KeywordResults[i].score, ROne)
    /\ out.op = "search_clients" =>
           \A i \in 1..Len(out.results) :
               /\ RLeq(RZero, out.results[i].score)
               /\ RLeq(out.results[i].score, ROne)

\* a keyword search that returns an exact title match, score 1, and a
\* word-level match, score below 1/2
C13_Witness ==
    /\ IsKeyword
    /\ \E i, j \in 1..Len(out.results) :
           /\ out.results[i].score = ROne
           /\ RLess(RZero, out.results[j].score)
           /\ RLess(out.results[j].score, Rat(1, 2))
           /\ ~PhraseOccurs(out.results[j].doc, DocQuery)

(***************************************************************************)
(* Claims about perform_search and the search endpoint.                    *)
(***************************************************************************)
IsPerformSearch == out.op = "perform_search"

IsSearchRequest == out.op = "search"

\* a result list in non-increasing order of score
SortedByScore(results) ==
    \A i \in 1..(Len(results) - 1) : RLeq(results[i + 1].score, results[i].score)

\* C15: each list returned by perform_search, the clients from search_clients
\* and the documents from search_documents_hybrid, is sorted by score in
\* non-increasing order and holds at most limit entries.
C15_SortedAndLimited ==
    IsPerformSearch =>
        /\ SortedByScore(out.clients_results)
        /\ SortedByScore(out.documents_results)
        /\ Len(out.clients_results) <= out.limit
        /\ Len(out.documents_results) <= out.limit

\* a perform_search over clients and documents that cuts the document list to
\* limit and returns both lists with strictly falling scores
C15_Witness ==
    /\ IsPerformSearch
    /\ out.search_type = "all"
    /\ out.limit = 2
    /\ Len(out.clients_results) = 2
    /\ Len(out.documents_results) = 2
    /\ RLess(out.clients_results[2].score, out.clients_results[1].score)
    /\ RLess(out.documents_results[2].score, out.documents_results[1].score)
    /\ out.documents_results[1].match_field = "semantic"
    /\ Cardinality({doc \in documents : DocFilter(doc, Split(Strip(Lower(out.query))))}) > 2

\* C24: perform_search dispatches by scope: with "clients" the document list is
\* empty and no embedding is generated, with "documents" the client list is
\* empty, and with "all" the two lists are what search_clients and
\* search_documents_hybrid returned, unmodified.
C24_DispatchByScope ==
    IsPerformSearch =>
        /\ out.search_type = "clients" =>
               /\ out.documents_results = <<>>
               /\ out.calls = {"search_clients"}
        /\ out.search_type = "documents" =>
               /\ out.clients_results = <<>>
               /\ "search_clients" \notin out.calls
               /\ "search_documents_hybrid" \in out.calls
        /\ out.search_type \in {"all", "clients"} =>
               /\ "search_clients" \in out.calls
               /\ out.clients_results = out.search_clients_returned
        /\ out.search_type \in {"all", "documents"} =>
               /\ "search_documents_hybrid" \in out.calls
               /\ out.documents_results = out.search_documents_hybrid_returned

\* a perform_search of scope "clients" that returns clients, over a store that
\* holds documents matching the query
C24_Witness ==
    /\ IsPerformSearch
    /\ out.search_type = "clients"
    /\ Len(out.clients_results) > 0
    /\ out.documents_results = <<>>
    /\ "generate_embedding" \notin out.calls
    /\ \E doc \in documents : DocFilter(doc, Split(Strip(Lower(out.query))))

\* C16: the search endpoint answers 400 to a blank query and to a limit
\* outside [1,100], and then no search function runs and no query embedding
\* is generated; a non-blank query with limit 1 or 100 is accepted.
C16_RejectedBeforeScoring ==
    IsSearchRequest =>
        LET blank == Strip(out.q) = <<>>
            outside == out.limit < 1 \/ out.limit > 100
        IN /\ (blank \/ outside) => (out.response.status = 400 /\ out.response.calls = {})
           /\ blank => out.response.detail = "Search query cannot be empty"
           /\ (~blank /\ outside) => out.response.detail = "Limit must be between 1 and 100"
           /\ (~blank /\ ~outside) =>
                  (out.response.status = 200 /\ "perform_search" \in out.response.calls)

\* a request with a matching query and limit 101, rejected
C16_Witness ==
    /\ IsSearchRequest
    /\ out.limit = 101
    /\ out.q = <<"a">>
    /\ out.response.status = 400
    /\ out.response.calls = {}
    /\ \E doc \in documents : DocFilter(doc, <<out.q>>)

(***************************************************************************)
(* Claims about search_clients.                                            *)
(***************************************************************************)
ClientResults == IF out.op = "search_clients" THEN out.results ELSE <<>>

ClientQuery == Strip(Lower(out.query))

ColumnLower(col) == IF col = NULL THEN <<>> ELSE Lower(col)

\* the rule list of the claim: literal comparisons, the seven rules in order
ClaimedWeight(c, q) ==
    IF Lower(c.email) = q THEN 1000
    ELSE IF Lower(c.first_name) = q \/ Lower(c.last_name) = q \/ Lower(FullName(c)) = q
         THEN 950
    ELSE IF StartsWith(Lower(c.email), q) THEN 900
    ELSE IF StartsWith(Lower(c.first_name), q) \/ StartsWith(Lower(c.last_name), q)
         THEN 850
    ELSE IF Contains(Lower(c.email), q) THEN 700
    ELSE IF Contains(Lower(FullName(c)), q) THEN 650
    ELSE IF Contains(ColumnLower(c.description), q) THEN 500
    ELSE 0

\* C8: every client returned by search_clients has the score of the first rule
\* that matches, in the order exact email 1.0, exact name or full name 0.95,
\* email prefix 0.90, name prefix 0.85, email substring 0.70, substring of
\* "first last" 0.65, description substring 0.50.
C8_FirstMatchingRule ==
    \A i \in 1..Len(ClientResults) :
        LET r == ClientResults[i]
            w == ClaimedWeight(r.client, ClientQuery)
        IN w > 0 /\ r.score = Rat(w, 1000)

\* the field class of a weight of the scoring table
WeightClass(score) ==
    IF score \in {Rat(EXACT_EMAIL, 1000), Rat(STARTS_WITH_EMAIL, 1000), Rat(CONTAINS_EMAIL, 1000)}
    THEN "email"
    ELSE IF score \in {Rat(EXACT_NAME, 1000), Rat(EXACT_FULL_NAME, 1000),
                        Rat(STARTS_WITH_NAME, 1000), Rat(CONTAINS_NAME, 1000)}
         THEN "name"
         ELSE IF score = Rat(CONTAINS_DESCRIPTION, 1000) THEN "description" ELSE "none"

\* C9: the match_field of every client returned by search_clients names the
\* field class (email, name, description) of the rule that gave its score.
C9_MatchFieldNamesRule ==
    \A i \in 1..Len(ClientResults) :
        ClientResults[i].match_field = WeightClass(ClientResults[i].score)

\* C10: search_clients returns a client only if the lowercased, trimmed query
\* is a substring of its lowercased email, first_name, last_name or description.
C10_OnlySubstringMatches ==
    \A i \in 1..Len(ClientResults) :
        LET c == ClientResults[i].client
        IN \/ Contains(Lower(c.email), ClientQuery)
           \/ Contains(Lower(c.first_name), ClientQuery)
           \/ Contains(Lower(c.last_name), ClientQuery)
           \/ Contains(ColumnLower(c.description), ClientQuery)

====
